---- MODULE Spec2Model ----
(***************************************************************************)
(* Model of the M-Pesa statement analyser: the parser (utils/parser.py),   *)
(* the KPI aggregation (utils/analyzer.py) and the upload step of the      *)
(* Streamlit script (app.py).                                              *)
(*                                                                         *)
(* Text is a sequence of one-character strings, so that substring tests,   *)
(* lower-casing, stripping and number parsing are computed, not assumed.   *)
(* Numbers are integers in thousandths (Scale units per shilling).         *)
(***************************************************************************)
EXTENDS Integers, Sequences, FiniteSets, TLC

VARIABLES
    fn,             \* which operation of the program the behaviour exercises
    arg,            \* the input handed to that operation
    ret,            \* what the operation returned (meaningful once called)
    called,         \* whether the operation has been applied
    session,        \* st.session_state: a mapping from the keys set so far
    uploaded_file,  \* value of the file_uploader widget in the last script run
    display,        \* what the last script run rendered
    log,            \* history: the ingestions (parse_file calls) run so far
    empty_apply_raises  \* the installed pandas: whether DataFrame.apply(axis=1)
                        \* on a table without rows yields a frame (which the
                        \* assignment to df['Amount'] rejects) or an empty column

vars == <<fn, arg, ret, called, session, uploaded_file, display, log,
          empty_apply_raises>>

(***************************************************************************)
(* Text helpers (Python str methods)                                       *)
(***************************************************************************)

\* str.lower on one character (the letters the inputs use)
LowerChar(c) ==
    CASE c = "A" -> "a" [] c = "B" -> "b" [] c = "C" -> "c" [] c = "D" -> "d"
      [] c = "E" -> "e" [] c = "F" -> "f" [] c = "G" -> "g" [] c = "H" -> "h"
      [] c = "I" -> "i" [] c = "J" -> "j" [] c = "K" -> "k" [] c = "L" -> "l"
      [] c = "M" -> "m" [] c = "N" -> "n" [] c = "O" -> "o" [] c = "P" -> "p"
      [] c = "Q" -> "q" [] c = "R" -> "r" [] c = "S" -> "s" [] c = "T" -> "t"
      [] c = "U" -> "u" [] c = "V" -> "v" [] c = "W" -> "w" [] c = "X" -> "x"
      [] c = "Y" -> "y" [] c = "Z" -> "z" [] OTHER -> c

\* str.lower
Lower(s) == [i \in 1..Len(s) |-> LowerChar(s[i])]

\* Python's `k in s` for strings
Contains(s, k) ==
    \E i \in 1..(Len(s) - Len(k) + 1) : SubSeq(s, i, i + Len(k) - 1) = k

\* str.replace(c, t) for a single character c and a replacement text t
RECURSIVE Replace(_, _, _)
Replace(s, c, t) ==
    IF s = <<>> THEN <<>>
    ELSE (IF Head(s) = c THEN t ELSE <<Head(s)>>) \o Replace(Tail(s), c, t)

IsSpace(c) == c \in {" ", "\n", "\t"}

RECURSIVE LStrip(_)
LStrip(s) == IF s # <<>> /\ IsSpace(Head(s)) THEN LStrip(Tail(s)) ELSE s

RECURSIVE RStrip(_)
RStrip(s) ==
    IF s # <<>> /\ IsSpace(s[Len(s)]) THEN RStrip(SubSeq(s, 1, Len(s) - 1)) ELSE s

\* str.strip
Strip(s) == RStrip(LStrip(s))

\* sep.join(parts)
RECURSIVE Join(_, _)
Join(parts, sep) ==
    IF parts = <<>> THEN <<>>
    ELSE IF Len(parts) = 1 THEN parts[1]
    ELSE parts[1] \o sep \o Join(Tail(parts), sep)

\* concatenation of a sequence of sequences
RECURSIVE Flatten(_)
Flatten(ss) == IF ss = <<>> THEN <<>> ELSE Head(ss) \o Flatten(Tail(ss))

\* the subsequence of s whose elements satisfy Keep, in order
RECURSIVE SelectIdx(_, _, _)
SelectIdx(s, keep, i) ==
    IF i > Len(s) THEN <<>>
    ELSE (IF i \in keep THEN <<s[i]>> ELSE <<>>) \o SelectIdx(s, keep, i + 1)

(***************************************************************************)
(* Cell values of a table (pandas object cells)                            *)
(*   Txt(s): a Python str; Num(n): a float, n in thousandths;              *)
(*   NA: a missing value, which pandas holds as the float NaN (pd.isna).   *)
(***************************************************************************)
Txt(s) == [t |-> "str", s |-> s, n |-> 0]
Num(n) == [t |-> "num", s |-> <<>>, n |-> n]
NA     == [t |-> "nan", s |-> <<>>, n |-> 0]

IsNA(v)  == v.t = "nan"
IsTxt(v) == v.t = "str"
IsNum(v) == v.t = "num"

\* Python float comparison v > 0 and v < 0: every comparison with NaN is False
GtZero(v) == IsNum(v) /\ v.n > 0
LtZero(v) == IsNum(v) /\ v.n < 0
EqZero(v) == IsNum(v) /\ v.n = 0

\* str(v) of a cell that is text or missing (str(float('nan')) = 'nan')
PyStr(v) == IF IsTxt(v) THEN v.s ELSE <<"n","a","n">>

(***************************************************************************)
(* settings.CATEGORIES and MpesaParser._categorize_transaction             *)
(***************************************************************************)
cat_sent_to_mpesa == <<"S","e","n","t"," ","t","o"," ","M","-","P","e","s","a">>
cat_received_mpesa == <<"R","e","c","e","i","v","e","d"," ","M","-","P","e","s","a">>
cat_pay_bill == <<"P","a","y"," ","B","i","l","l">>
cat_buy_goods == <<"B","u","y"," ","G","o","o","d","s">>
cat_airtime == <<"A","i","r","t","i","m","e">>
cat_withdraw_cash == <<"W","i","t","h","d","r","a","w"," ","C","a","s","h">>
cat_deposit == <<"D","e","p","o","s","i","t">>
cat_bank_transfer == <<"B","a","n","k"," ","T","r","a","n","s","f","e","r">>
cat_loan == <<"L","o","a","n">>
cat_other == <<"O","t","h","e","r">>

CATEGORIES ==
    <<cat_sent_to_mpesa, cat_received_mpesa, cat_pay_bill, cat_buy_goods, cat_airtime,
      cat_withdraw_cash, cat_deposit, cat_bank_transfer, cat_loan, cat_other>>

kw_airtime == <<"a","i","r","t","i","m","e">>
kw_pay_bill == <<"p","a","y"," ","b","i","l","l">>
kw_paybill == <<"p","a","y","b","i","l","l">>
kw_buy_goods == <<"b","u","y"," ","g","o","o","d","s">>
kw_customer_transfer == <<"c","u","s","t","o","m","e","r"," ","t","r","a","n","s","f","e","r">>
kw_sent_to == <<"s","e","n","t"," ","t","o">>
kw_received_from == <<"r","e","c","e","i","v","e","d"," ","f","r","o","m">>
kw_withdraw == <<"w","i","t","h","d","r","a","w">>
kw_deposit == <<"d","e","p","o","s","i","t">>
kw_loan == <<"l","o","a","n">>
kw_fuliza == <<"f","u","l","i","z","a">>
kw_m_shwari == <<"m","-","s","h","w","a","r","i">>

\* a plausible slip: the loan rule tested before the pay-bill rule
categorize_loan_first(details) ==
    LET d == Lower(PyStr(details)) IN
    IF Contains(d, kw_airtime) THEN cat_airtime
    ELSE IF Contains(d, kw_loan) \/ Contains(d, kw_fuliza) \/ Contains(d, kw_m_shwari)
        THEN cat_loan
    ELSE IF Contains(d, kw_pay_bill) \/ Contains(d, kw_paybill) THEN cat_pay_bill
    ELSE IF Contains(d, kw_buy_goods) THEN cat_buy_goods
    ELSE IF Contains(d, kw_customer_transfer) \/ Contains(d, kw_sent_to)
        THEN cat_sent_to_mpesa
    ELSE IF Contains(d, kw_received_from) THEN cat_received_mpesa
    ELSE IF Contains(d, kw_withdraw) THEN cat_withdraw_cash
    ELSE IF Contains(d, kw_deposit) THEN cat_deposit
    ELSE cat_other

\* a plausible slip: a transfer rule that yields the declared "Bank Transfer"
categorize_bank_transfer(details) ==
    LET d == Lower(PyStr(details)) IN
    IF Contains(d, kw_airtime) THEN cat_airtime
    ELSE IF Contains(d, kw_pay_bill) \/ Contains(d, kw_paybill) THEN cat_pay_bill
    ELSE IF Contains(d, kw_buy_goods) THEN cat_buy_goods
    ELSE IF Contains(d, kw_customer_transfer) THEN cat_bank_transfer
    ELSE IF Contains(d, kw_sent_to) THEN cat_sent_to_mpesa
    ELSE IF Contains(d, kw_received_from) THEN cat_received_mpesa
    ELSE IF Contains(d, kw_withdraw) THEN cat_withdraw_cash
    ELSE IF Contains(d, kw_deposit) THEN cat_deposit
    ELSE IF Contains(d, kw_loan) \/ Contains(d, kw_fuliza) \/ Contains(d, kw_m_shwari)
        THEN cat_loan
    ELSE cat_other

\* a plausible slip: the received rule keyed on "received" alone
categorize_received_any(details) ==
    LET d == Lower(PyStr(details)) IN
    IF Contains(d, kw_airtime) THEN cat_airtime
    ELSE IF Contains(d, kw_pay_bill) \/ Contains(d, kw_paybill) THEN cat_pay_bill
    ELSE IF Contains(d, kw_buy_goods) THEN cat_buy_goods
    ELSE IF Contains(d, kw_customer_transfer) \/ Contains(d, kw_sent_to)
        THEN cat_sent_to_mpesa
    ELSE IF Contains(d, <<"r","e","c","e","i","v","e","d">>) THEN cat_received_mpesa
    ELSE IF Contains(d, kw_withdraw) THEN cat_withdraw_cash
    ELSE IF Contains(d, kw_deposit) THEN cat_deposit
    ELSE IF Contains(d, kw_loan) \/ Contains(d, kw_fuliza) \/ Contains(d, kw_m_shwari)
        THEN cat_loan
    ELSE cat_other

_categorize_transaction(details) ==
    LET d == Lower(PyStr(details)) IN
    IF Contains(d, kw_airtime) THEN cat_airtime
    ELSE IF Contains(d, kw_pay_bill) \/ Contains(d, kw_paybill) THEN cat_pay_bill
    ELSE IF Contains(d, kw_buy_goods) THEN cat_buy_goods
    ELSE IF Contains(d, kw_customer_transfer) \/ Contains(d, kw_sent_to)
        THEN cat_sent_to_mpesa
    ELSE IF Contains(d, kw_received_from) THEN cat_received_mpesa
    ELSE IF Contains(d, kw_withdraw) THEN cat_withdraw_cash
    ELSE IF Contains(d, kw_deposit) THEN cat_deposit
    ELSE IF Contains(d, kw_loan) \/ Contains(d, kw_fuliza) \/ Contains(d, kw_m_shwari)
        THEN cat_loan
    ELSE cat_other

(***************************************************************************)
(* Numbers: float(text) and clean_currency                                 *)
(***************************************************************************)
Scale == 10 * 10 * 10

Digits == {"0", "1", "2", "3", "4", "5", "6", "7", "8", "9"}

DigitVal(c) ==
    CASE c = "0" -> 0 [] c = "1" -> 1 [] c = "2" -> 2 [] c = "3" -> 3 [] c = "4" -> 4
      [] c = "5" -> 5 [] c = "6" -> 6 [] c = "7" -> 7 [] c = "8" -> 8 [] c = "9" -> 9

AllDigits(s) == \A i \in 1..Len(s) : s[i] \in Digits

RECURSIVE DigitsVal(_)
DigitsVal(s) ==
    IF s = <<>> THEN 0
    ELSE DigitsVal(SubSeq(s, 1, Len(s) - 1)) * 10 + DigitVal(s[Len(s)])

\* position of the first "." of s, or Len(s) + 1
DotPos(s) ==
    IF \E i \in 1..Len(s) : s[i] = "."
    THEN CHOOSE i \in 1..Len(s) : s[i] = "." /\ \A j \in 1..(i - 1) : s[j] # "."
    ELSE Len(s) + 1

\* Python float(s): [ok |-> whether s parses, v |-> the value]. Handles what the
\* model's texts can spell: surrounding blanks, a sign, "nan", and decimals
\* digits[.digits] (three fractional digits are kept). Texts spelling "inf", an
\* exponent or digit-group underscores are not among the model's inputs.
PyFloat(s) ==
    LET s0   == Strip(s)
        neg  == s0 # <<>> /\ Head(s0) = "-"
        body == IF s0 # <<>> /\ Head(s0) \in {"-", "+"} THEN Tail(s0) ELSE s0
        p    == DotPos(body)
        ip   == SubSeq(body, 1, p - 1)
        fp   == SubSeq(body, p + 1, Len(body))
        mag  == DigitsVal(ip) * Scale
                  + DigitsVal(SubSeq(fp \o <<"0", "0", "0">>, 1, 3))
    IN  IF Lower(body) = <<"n", "a", "n">> THEN [ok |-> TRUE, v |-> NA]
        ELSE IF AllDigits(ip) /\ AllDigits(fp) /\ Len(ip) + Len(fp) > 0
            THEN [ok |-> TRUE, v |-> Num(IF neg THEN 0 - mag ELSE mag)]
        ELSE [ok |-> FALSE, v |-> Num(0)]

\* clean_currency, the helper nested in _clean_data. A cell that is already a
\* float goes through str() and back, which keeps its magnitude and, with the
\* minus sign removed from the text, drops its sign.
clean_currency(val) ==
    IF IsNA(val) \/ val = Txt(<<>>) THEN Num(0)
    ELSE IF IsNum(val) THEN Num(IF val.n < 0 THEN 0 - val.n ELSE val.n)
    ELSE LET v1 == Replace(Replace(val.s, ",", <<>>), " ", <<>>)
             v2 == Replace(v1, "-", <<>>)
             f  == PyFloat(v2)
         IN  IF f.ok THEN f.v ELSE Num(0)

\* unary minus of a float cell (-NaN is NaN)
Neg(v) == IF IsNum(v) THEN Num(0 - v.n) ELSE v

(***************************************************************************)
(* Timestamps: pd.to_datetime(..., errors='coerce')                        *)
(***************************************************************************)
\* a parsed timestamp, held as its ISO text "YYYY-MM-DD HH:MM:SS"
Ts(iso) == [t |-> "ts", s |-> iso, n |-> 0]

IsTs(v) == v.t = "ts"

TwoDigits(s, i) == DigitsVal(SubSeq(s, i, i + 1))

\* "HH:MM:SS" at positions 12..19 of a 19-character text
ClockOk(s) ==
    /\ s[11] = " " /\ s[14] = ":" /\ s[17] = ":"
    /\ AllDigits(SubSeq(s, 12, 13)) /\ AllDigits(SubSeq(s, 15, 16))
    /\ AllDigits(SubSeq(s, 18, 19))
    /\ TwoDigits(s, 12) < 24 /\ TwoDigits(s, 15) < 60 /\ TwoDigits(s, 18) < 60

IsoShape(s) ==
    /\ Len(s) = 19 /\ s[5] = "-" /\ s[8] = "-"
    /\ AllDigits(SubSeq(s, 1, 4)) /\ AllDigits(SubSeq(s, 6, 7))
    /\ AllDigits(SubSeq(s, 9, 10))
    /\ TwoDigits(s, 6) \in 1..12 /\ TwoDigits(s, 9) \in 1..31
    /\ ClockOk(s)

DmyShape(s) ==
    /\ Len(s) = 19 /\ s[3] = "-" /\ s[6] = "-"
    /\ AllDigits(SubSeq(s, 1, 2)) /\ AllDigits(SubSeq(s, 4, 5))
    /\ AllDigits(SubSeq(s, 7, 10))
    /\ ClockOk(s)

\* One cell of the 'Completion Time' column. The two formats the source
\* names are recognised: "YYYY-MM-DD HH:MM:SS", and "AA-BB-YYYY HH:MM:SS",
\* which the parser reads month first unless AA cannot be a month. Anything
\* else is coerced to NaT (held as NA).
to_datetime(v) ==
    IF ~IsTxt(v) THEN (IF IsTs(v) THEN v ELSE NA)
    ELSE LET s == v.s IN
         IF IsoShape(s) THEN Ts(s)
         ELSE IF DmyShape(s)
             THEN LET a == TwoDigits(s, 1)
                      b == TwoDigits(s, 4)
                      y == SubSeq(s, 7, 10)
                      aa == SubSeq(s, 1, 2)
                      bb == SubSeq(s, 4, 5)
                      rest == SubSeq(s, 11, 19)
                  IN  IF a \in 1..12 /\ b \in 1..31
                          THEN Ts(y \o <<"-">> \o aa \o <<"-">> \o bb \o rest)
                      ELSE IF b \in 1..12 /\ a \in 1..31
                          THEN Ts(y \o <<"-">> \o bb \o <<"-">> \o aa \o rest)
                      ELSE NA
         ELSE NA

(***************************************************************************)
(* Tables (pandas DataFrame): cols is the sequence of column labels, rows  *)
(* the sequence of rows, each a sequence of cells aligned with cols.       *)
(* A call returns Ok(table) or Fail(kind of error raised).                 *)
(***************************************************************************)
Table(cols, rows) == [cols |-> cols, rows |-> rows]

Ok(df)  == [err |-> "none", cols |-> df.cols, rows |-> df.rows]
Fail(e) == [err |-> e, cols |-> <<>>, rows |-> <<>>]

IsOk(r) == r.err = "none"

\* positions of the columns labelled name
Pos(cols, name) == {i \in 1..Len(cols) : cols[i] = name}

\* position of the only column labelled name
ColIdx(cols, name) == CHOOSE i \in Pos(cols, name) : TRUE

\* df[name] of row r, for a label that occurs once
Cell(df, r, name) == df.rows[r][ColIdx(df.cols, name)]

\* df[name] = vals: overwrite the column in place, or append a new one
SetCol(df, name, vals) ==
    IF Pos(df.cols, name) = {}
    THEN Table(Append(df.cols, name),
               [r \in 1..Len(df.rows) |-> Append(df.rows[r], vals[r])])
    ELSE Table(df.cols,
               [r \in 1..Len(df.rows) |->
                   [i \in 1..Len(df.cols) |->
                       IF df.cols[i] = name THEN vals[r] ELSE df.rows[r][i]]])

col_receipt_no == <<"R","e","c","e","i","p","t"," ","N","o",".">>
col_completion_time == <<"C","o","m","p","l","e","t","i","o","n"," ","T","i","m","e">>
col_details == <<"D","e","t","a","i","l","s">>
col_transaction_status == <<"T","r","a","n","s","a","c","t","i","o","n"," ","S","t","a","t","u","s">>
col_paid_in == <<"P","a","i","d"," ","I","n">>
col_withdrawn == <<"W","i","t","h","d","r","a","w","n">>
col_balance == <<"B","a","l","a","n","c","e">>
col_amount == <<"A","m","o","u","n","t">>
col_category == <<"C","a","t","e","g","o","r","y">>

REQUIRED_COLUMNS ==
    <<col_receipt_no, col_completion_time, col_details, col_transaction_status,
      col_paid_in, col_withdrawn, col_balance>>

kw_receipt == <<"r","e","c","e","i","p","t">>
kw_time == <<"t","i","m","e">>
kw_date == <<"d","a","t","e">>
kw_details == <<"d","e","t","a","i","l","s">>
kw_status == <<"s","t","a","t","u","s">>
kw_paid_in == <<"p","a","i","d"," ","i","n">>
kw_withdrawn == <<"w","i","t","h","d","r","a","w","n">>
kw_balance == <<"b","a","l","a","n","c","e">>

\* col_map of _clean_data, applied by df.rename: the new label of column col
col_map(col) ==
    LET l_col == Lower(col) IN
    IF Contains(l_col, kw_receipt) THEN col_receipt_no
    ELSE IF Contains(l_col, kw_time) \/ Contains(l_col, kw_date) THEN col_completion_time
    ELSE IF Contains(l_col, kw_details) THEN col_details
    ELSE IF Contains(l_col, kw_status) THEN col_transaction_status
    ELSE IF Contains(l_col, kw_paid_in) THEN col_paid_in
    ELSE IF Contains(l_col, kw_withdrawn) THEN col_withdrawn
    ELSE IF Contains(l_col, kw_balance) THEN col_balance
    ELSE col

(***************************************************************************)
(* MpesaParser._clean_data                                                 *)
(***************************************************************************)
ReceiptMinLen == 5

\* a plausible slip: an off-by-one in the length filter
receipt_kept_off_by_one(cell) == ~IsNA(cell) /\ Len(PyStr(cell)) > ReceiptMinLen - 1

\* dropna(subset=['Receipt No.']) and astype(str).str.len() > 5, for one cell
receipt_kept(cell) == ~IsNA(cell) /\ Len(PyStr(cell)) > ReceiptMinLen

\* the rows the receipt filter keeps, in their order
receipt_filter(df) ==
    Table(df.cols,
          SelectIdx(df.rows,
                    {r \in 1..Len(df.rows) : receipt_kept(Cell(df, r, col_receipt_no))},
                    1))

\* the loop over ['Paid In', 'Withdrawn', 'Balance'] for one column name
clean_numeric(df, name) ==
    IF Pos(df.cols, name) = {}
    THEN SetCol(df, name, [r \in 1..Len(df.rows) |-> Num(0)])
    ELSE SetCol(df, name, [r \in 1..Len(df.rows) |-> clean_currency(Cell(df, r, name))])

\* the lambda of df.apply(..., axis=1): the signed Amount of a row
amount_of(paid_in, withdrawn) ==
    IF GtZero(paid_in) THEN paid_in ELSE Neg(withdrawn)

Dup(cols, name) == Cardinality(Pos(cols, name)) > 1

\* the only element of a one-element set; The({F(x) : x \in {e}}) is F(e) with e
\* evaluated once
The(S) == CHOOSE x \in S : TRUE

\* lines 132-149: the labels stripped, newlines replaced, and renamed
rename_columns(df) ==
    Table([i \in 1..Len(df.cols) |-> col_map(Replace(Strip(df.cols[i]), "\n", <<" ">>))],
          df.rows)

\* A label that occurs twice makes df[label] a frame, on which .str,
\* clean_currency, to_datetime and the Category assignment raise; a table
\* without a Details column raises KeyError.
clean_raises(df) ==
    \/ Dup(df.cols, col_receipt_no)
    \/ Dup(df.cols, col_paid_in) \/ Dup(df.cols, col_withdrawn)
    \/ Dup(df.cols, col_balance)
    \/ Dup(df.cols, col_completion_time)
    \/ Cardinality(Pos(df.cols, col_details)) # 1

\* lines 152-154
drop_receiptless(df) ==
    IF Pos(df.cols, col_receipt_no) # {} THEN receipt_filter(df) ELSE df

\* lines 168-172
clean_numerics(df) ==
    The({clean_numeric(d2, col_balance) :
            d2 \in {clean_numeric(d1, col_withdrawn) :
                       d1 \in {clean_numeric(df, col_paid_in)}}})

\* line 179
add_amount(df) ==
    SetCol(df, col_amount,
           [r \in 1..Len(df.rows) |->
               amount_of(Cell(df, r, col_paid_in), Cell(df, r, col_withdrawn))])

\* lines 182-184
parse_dates(df) ==
    IF Pos(df.cols, col_completion_time) # {}
    THEN SetCol(df, col_completion_time,
                [r \in 1..Len(df.rows) |-> to_datetime(Cell(df, r, col_completion_time))])
    ELSE df

\* line 187
add_category(df) ==
    SetCol(df, col_category,
           [r \in 1..Len(df.rows) |->
               Txt(_categorize_transaction(Cell(df, r, col_details)))])

\* the statements of _clean_data after the receipt filter
clean_rows(df) ==
    IF df.rows = <<>> /\ empty_apply_raises THEN Fail("GenericParseFailure")
    ELSE Ok(The({add_category(d3) :
                    d3 \in {parse_dates(d2) :
                               d2 \in {add_amount(d1) : d1 \in {clean_numerics(df)}}}}))

\* _clean_data(df)
_clean_data(df) ==
    The({IF clean_raises(d1) THEN Fail("GenericParseFailure")
         ELSE The({clean_rows(d2) : d2 \in {drop_receiptless(d1)}}) :
            d1 \in {rename_columns(df)}})

(***************************************************************************)
(* CSV path: pd.read_csv and MpesaParser.parse_csv                         *)
(* A CSV file is a sequence of lines, a line the sequence of its fields;   *)
(* the text of a line is its fields joined by commas.                      *)
(***************************************************************************)
LineText(line) == Join(line, <<",">>)

\* a line the tokenizer skips (skip_blank_lines)
IsBlankLine(line) == LineText(line) = <<>>

\* the values read_csv turns into missing cells (its default na_values)
STR_NA_VALUES ==
    {<<>>,
     <<"#","N","/","A">>,
     <<"#","N","/","A"," ","N","/","A">>,
     <<"#","N","A">>,
     <<"-","1",".","#","I","N","D">>,
     <<"-","1",".","#","Q","N","A","N">>,
     <<"-","N","a","N">>,
     <<"-","n","a","n">>,
     <<"1",".","#","I","N","D">>,
     <<"1",".","#","Q","N","A","N">>,
     <<"<","N","A",">">>,
     <<"N","/","A">>,
     <<"N","A">>,
     <<"N","U","L","L">>,
     <<"N","a","N">>,
     <<"N","o","n","e">>,
     <<"n","/","a">>,
     <<"n","a","n">>,
     <<"n","u","l","l">>}

\* one data field as a cell. Cells are kept as text: a column that read_csv
\* infers to be numeric is rendered back by str() in clean_currency.
csv_cell(field) == IF field \in STR_NA_VALUES THEN NA ELSE Txt(field)

DigitChar(k) ==
    CASE k = 0 -> "0" [] k = 1 -> "1" [] k = 2 -> "2" [] k = 3 -> "3" [] k = 4 -> "4"
      [] k = 5 -> "5" [] k = 6 -> "6" [] k = 7 -> "7" [] k = 8 -> "8" [] k = 9 -> "9"

RECURSIVE NatText(_)
NatText(k) ==
    IF k < 10 THEN <<DigitChar(k)>> ELSE NatText(k \div 10) \o <<DigitChar(k % 10)>>

txt_unnamed == <<"U","n","n","a","m","e","d",":"," ">>

\* the column labels read_csv makes of a header line: an empty name becomes
\* "Unnamed: i", a repeated name gets the suffix ".k"
csv_columns(header) ==
    LET named == [i \in 1..Len(header) |->
                     IF header[i] = <<>> THEN txt_unnamed \o NatText(i - 1)
                     ELSE header[i]]
    IN  [i \in 1..Len(named) |->
            LET k == Cardinality({j \in 1..(i - 1) : named[j] = named[i]})
            IN  IF k = 0 THEN named[i] ELSE named[i] \o <<".">> \o NatText(k)]

Max(a, b) == IF a >= b THEN a ELSE b

\* pd.read_csv(file_obj, skiprows=skiprows) with the C tokenizer: the first
\* non-blank line is the header; the width of the table is fixed by the header
\* and the first data line; a later line with more fields than that raises
\* ParserError ("Expected n fields in line m, saw k"); shorter lines are padded
\* with missing cells; when the first data line is wider than the header, its
\* leading fields are taken as the index and are no column.
read_csv(lines, skiprows) ==
    LET rest == SubSeq(lines, skiprows + 1, Len(lines))
        ls   == SelectIdx(rest, {i \in 1..Len(rest) : ~IsBlankLine(rest[i])}, 1)
        f0   == Len(ls[1])
        w    == IF Len(ls) >= 2 THEN Max(f0, Len(ls[2])) ELSE f0
        lead == w - f0
    IN  IF ls = <<>> THEN Fail("GenericParseFailure")
        ELSE IF \E i \in 3..Len(ls) : Len(ls[i]) > w THEN Fail("GenericParseFailure")
        ELSE Ok(Table(csv_columns(ls[1]),
                      [r \in 1..(Len(ls) - 1) |->
                          [c \in 1..f0 |->
                              IF lead + c <= Len(ls[r + 1])
                              THEN csv_cell(ls[r + 1][lead + c])
                              ELSE NA]]))

tok_receipt_no == <<"R","e","c","e","i","p","t"," ","N","o",".">>
tok_completion_time == <<"C","o","m","p","l","e","t","i","o","n"," ","T","i","m","e">>

ScanWindow == 20

\* the loop of parse_csv over content[:20]: the 0-based index of the first line
\* holding both tokens, or -1
header_row(lines) ==
    LET hits == {i \in 1..Len(lines) :
                    /\ i <= ScanWindow
                    /\ Contains(LineText(lines[i]), tok_receipt_no)
                    /\ Contains(LineText(lines[i]), tok_completion_time)}
    IN  IF hits = {} THEN 0 - 1
        ELSE (CHOOSE i \in hits : \A j \in hits : i <= j) - 1

Range(f) == {f[i] : i \in DOMAIN f}

\* MpesaParser.parse_csv on the bytes of an uploaded file. Bytes that are no
\* CSV text (a PDF document) make read_csv raise.
parse_csv(content) ==
    IF content.kind # "csv" THEN Fail("GenericParseFailure")
    ELSE LET first == read_csv(content.lines, 0) IN
         IF ~IsOk(first) THEN Fail("GenericParseFailure")
         ELSE IF \A i \in 1..Len(REQUIRED_COLUMNS) :
                     REQUIRED_COLUMNS[i] \in Range(first.cols)
             THEN _clean_data(first)
         ELSE LET h == header_row(content.lines) IN
              IF h = 0 - 1 THEN Fail("HeaderNotFound")
              ELSE LET again == read_csv(content.lines, h) IN
                   IF ~IsOk(again) THEN Fail("GenericParseFailure")
                   ELSE _clean_data(again)

(***************************************************************************)
(* PDF path: MpesaParser.parse_pdf                                         *)
(* A PDF document is a sequence of pages, a page the sequence of the cell  *)
(* grids page.extract_tables() returns, a grid a sequence of rows of cells *)
(* (Txt, or NA for the extractor's None).                                  *)
(***************************************************************************)
txt_none == <<"N","o","n","e">>

\* str(h) of a header cell (str(None) = 'None')
PyStrNone(v) == IF IsTxt(v) THEN v.s ELSE txt_none

RECURSIVE MaxLen(_)
MaxLen(rows) == IF rows = <<>> THEN 0 ELSE Max(Len(Head(rows)), MaxLen(Tail(rows)))

\* pd.DataFrame(table): ragged rows are padded with None
grid_frame(table) ==
    LET w == MaxLen(table) IN
    [r \in 1..Len(table) |->
        [c \in 1..w |-> IF c <= Len(table[r]) THEN table[r][c] ELSE NA]]

\* " ".join([str(x) for x in row if x]).lower(): None and '' cells are left out
row_str(row) ==
    LET kept == SelectIdx(row, {c \in 1..Len(row) : IsTxt(row[c]) /\ row[c].s # <<>>}, 1)
    IN  Lower(Join([c \in 1..Len(kept) |-> kept[c].s], <<" ">>))

is_header_row(row) ==
    LET rs == row_str(row) IN
    Contains(rs, kw_receipt) /\ Contains(rs, kw_details) /\ Contains(rs, kw_balance)

\* header_idx of a grid, 1-based; 0 when no row is a header (the source's -1)
header_idx(rows) ==
    LET hits == {r \in 1..Len(rows) : is_header_row(rows[r])} IN
    IF hits = {} THEN 0 ELSE CHOOSE r \in hits : \A q \in hits : r <= q

\* the frames one grid appends to `transactions`: none, or its data rows
\* labelled with the cleaned header
grid_transactions(table) ==
    IF table = <<>> THEN <<>>
    ELSE LET rows == grid_frame(table)
             h    == header_idx(rows)
             hdr  == [c \in 1..Len(rows[h]) |->
                         Strip(Replace(PyStrNone(rows[h][c]), "\n", <<" ">>))]
             data == SubSeq(rows, h + 1, Len(rows))
         IN  IF h = 0 \/ data = <<>> THEN <<>> ELSE <<Table(hdr, data)>>

\* a plausible slip: each grid with a header replaces what was collected before
RECURSIVE pdf_transactions_last_only(_)
pdf_transactions_last_only(tables) ==
    IF tables = <<>> THEN <<>>
    ELSE LET later == pdf_transactions_last_only(Tail(tables)) IN
         IF later # <<>> THEN later ELSE grid_transactions(Head(tables))

\* the list `transactions` after the loops over pages and tables
RECURSIVE pdf_transactions(_)
pdf_transactions(tables) ==
    IF tables = <<>> THEN <<>>
    ELSE grid_transactions(Head(tables)) \o pdf_transactions(Tail(tables))

\* the labels of the frames, each once, in order of first appearance
RECURSIVE union_cols(_, _)
union_cols(seen, todo) ==
    IF todo = <<>> THEN seen
    ELSE union_cols(IF Head(todo) \in Range(seen) THEN seen ELSE Append(seen, Head(todo)),
                    Tail(todo))

HasDupLabels(cols) == \E i, j \in 1..Len(cols) : i < j /\ cols[i] = cols[j]

\* pd.concat(frames, ignore_index=True) for a non-empty list: frames with the
\* same labels are stacked; otherwise the result has the union of the labels
\* and missing cells are NaN, and a frame with a repeated label cannot be
\* re-indexed (InvalidIndexError)
concat(frames) ==
    IF \A k \in 1..Len(frames) : frames[k].cols = frames[1].cols
    THEN Ok(Table(frames[1].cols, Flatten([k \in 1..Len(frames) |-> frames[k].rows])))
    ELSE IF \E k \in 1..Len(frames) : HasDupLabels(frames[k].cols)
        THEN Fail("GenericParseFailure")
    ELSE LET cols == union_cols(<<>>, Flatten([k \in 1..Len(frames) |-> frames[k].cols]))
             widen(f) ==
                 [r \in 1..Len(f.rows) |->
                     [c \in 1..Len(cols) |->
                         IF cols[c] \in Range(f.cols)
                         THEN f.rows[r][ColIdx(f.cols, cols[c])]
                         ELSE NA]]
         IN  Ok(Table(cols, Flatten([k \in 1..Len(frames) |-> widen(frames[k])])))

\* MpesaParser.parse_pdf on the bytes of an uploaded file. Bytes that are no
\* PDF document make pdfplumber.open raise.
parse_pdf(content) ==
    IF content.kind # "pdf" THEN Fail("GenericParseFailure")
    ELSE LET transactions == pdf_transactions(Flatten(content.pages)) IN
         IF transactions = <<>> THEN Fail("NoTransactionsFound")
         ELSE LET full_df == concat(transactions) IN
              IF ~IsOk(full_df) THEN Fail("GenericParseFailure")
              ELSE _clean_data(full_df)

(***************************************************************************)
(* MpesaParser.parse_file                                                  *)
(***************************************************************************)
ext_pdf == <<"p","d","f">>
ext_csv == <<"c","s","v">>

\* parse_file(file_obj, file_type); every error is re-raised as Exception with
\* the cause's message, so the kind of the failure is kept
parse_file(content, file_type) ==
    IF Lower(file_type) = ext_pdf THEN parse_pdf(content)
    ELSE IF Lower(file_type) = ext_csv THEN parse_csv(content)
    ELSE Fail("UnsupportedFormat")

(***************************************************************************)
(* ExpenseAnalyzer.calculate_kpis                                          *)
(***************************************************************************)
RECURSIVE SumNums(_)
SumNums(vals) == IF vals = <<>> THEN 0 ELSE Head(vals).n + SumNums(Tail(vals))

Abs(n) == IF n < 0 THEN 0 - n ELSE n

\* the column df['Amount'] as a sequence of cells
amounts(df) == [r \in 1..Len(df.rows) |-> Cell(df, r, col_amount)]

\* a plausible slip: the expenses returned with their sign
calculate_kpis_signed(df) ==
    LET a   == amounts(df)
        inn == SumNums(SelectIdx(a, {r \in 1..Len(a) : GtZero(a[r])}, 1))
        out == SumNums(SelectIdx(a, {r \in 1..Len(a) : LtZero(a[r])}, 1))
    IN  [total_income |-> inn, total_expenses |-> out,
         net_savings |-> inn + out, transaction_count |-> Len(df.rows)]

\* calculate_kpis(df): df[df['Amount'] > 0]['Amount'].sum() and so on; a NaN
\* Amount passes neither filter
calculate_kpis(df) ==
    LET a            == amounts(df)
        incident_in  == SumNums(SelectIdx(a, {r \in 1..Len(a) : GtZero(a[r])}, 1))
        incident_out == SumNums(SelectIdx(a, {r \in 1..Len(a) : LtZero(a[r])}, 1))
        net          == incident_in + incident_out
    IN  [total_income |-> incident_in, total_expenses |-> Abs(incident_out),
         net_savings |-> net, transaction_count |-> Len(df.rows)]

\* the month of a timestamp, counted from year 0 (what resample('M') bins by)
month_of(ts) == DigitsVal(SubSeq(ts.s, 1, 4)) * 12 + TwoDigits(ts.s, 6) - 1

\* the months that occur in the index df['Completion Time']; NaT has none
months_of(df) ==
    {month_of(Cell(df, r, col_completion_time)) :
        r \in {q \in 1..Len(df.rows) : IsTs(Cell(df, q, col_completion_time))}}

\* a plausible slip: the rows without a timestamp counted in every bin
bucket_rows_with_nat(df, m) ==
    {r \in 1..Len(df.rows) :
        IsTs(Cell(df, r, col_completion_time))
            => month_of(Cell(df, r, col_completion_time)) = m}

\* the rows resample('M') puts in the bin of month m; NaT falls in no bin
bucket_rows(df, m) ==
    {r \in 1..Len(df.rows) :
        /\ IsTs(Cell(df, r, col_completion_time))
        /\ month_of(Cell(df, r, col_completion_time)) = m}

\* ['Amount'] of a bin
bucket_amounts(df, m) == SelectIdx(amounts(df), bucket_rows(df, m), 1)

\* Income=lambda x: x[x > 0].sum(), Expense=lambda x: abs(x[x < 0].sum())
bucket(df, m) ==
    [month   |-> m,
     Income  |-> calculate_kpis(Table(<<col_amount>>,
                     [r \in 1..Len(bucket_amounts(df, m)) |-> <<bucket_amounts(df, m)[r]>>])).total_income,
     Expense |-> calculate_kpis(Table(<<col_amount>>,
                     [r \in 1..Len(bucket_amounts(df, m)) |-> <<bucket_amounts(df, m)[r]>>])).total_expenses]

Trends(buckets) == [err |-> "none", buckets |-> buckets]
TrendsRaise == [err |-> "exception", buckets |-> <<>>]

MinOf(S) == CHOOSE x \in S : \A y \in S : x <= y
MaxOf(S) == CHOOSE x \in S : \A y \in S : y <= x

\* get_monthly_trends(df): one bin per month from the first to the last month
\* of the index, the empty months between them included, in time order (the
\* month label '%b %Y' is a function of the bin's month). df['Completion Time']
\* raises KeyError without that column. When no row has a timestamp the bin
\* edges are undefined: the call then returns no bin or raises, by the version
\* of pandas (no_bins_raises). The ledger's column is datetime64 already, so
\* line 57 does not run.
get_monthly_trends(df, no_bins_raises) ==
    IF Cardinality(Pos(df.cols, col_completion_time)) # 1 THEN TrendsRaise
    ELSE IF months_of(df) = {}
        THEN (IF no_bins_raises THEN TrendsRaise ELSE Trends(<<>>))
    ELSE Trends([i \in 1..(MaxOf(months_of(df)) - MinOf(months_of(df)) + 1) |->
                    bucket(df, MinOf(months_of(df)) + i - 1)])

(***************************************************************************)
(* app.main: one run of the Streamlit script                               *)
(* st.session_state holds the keys 'data' and 'last_uploaded' once set;    *)
(* a slot is [set |-> whether the key exists, v |-> its value].            *)
(***************************************************************************)
NoFile == [present |-> FALSE, name |-> <<>>, content |-> [kind |-> "none", lines |-> <<>>, pages |-> <<>>]]

UploadedFile(name, content) == [present |-> TRUE, name |-> name, content |-> content]

CsvContent(lines) == [kind |-> "csv", lines |-> lines, pages |-> <<>>]
PdfContent(pages) == [kind |-> "pdf", lines |-> <<>>, pages |-> pages]

EmptySession ==
    [data |-> [set |-> FALSE, v |-> Table(<<>>, <<>>)],
     last_uploaded |-> [set |-> FALSE, v |-> <<>>]]

NoIngestion == [count |-> 0, file |-> NoFile, result |-> Fail("never")]

\* uploaded_file.name.split('.')[-1]
file_type_of(name) ==
    LET dots == {i \in 1..Len(name) : name[i] = "."} IN
    IF dots = {} THEN name
    ELSE SubSeq(name, (CHOOSE i \in dots : \A j \in dots : j <= i) + 1, Len(name))

\* a plausible slip: no comparison with the remembered name
file_changed_always(sess, f) == TRUE

\* st.session_state.get('last_uploaded') != uploaded_file.name
file_changed(sess, f) == ~sess.last_uploaded.set \/ sess.last_uploaded.v # f.name

\* a plausible slip: the ledger stored before the outcome of parsing is known
session_after_store_always(sess, f, r) ==
    [data |-> [set |-> TRUE, v |-> Table(r.cols, r.rows)],
     last_uploaded |-> IF IsOk(r) THEN [set |-> TRUE, v |-> f.name] ELSE sess.last_uploaded]

\* the session after parse_file returned or raised r for file f: lines 64-66
\* run to the end, or the exception leaves the session as it was
session_after(sess, f, r) ==
    IF IsOk(r)
    THEN [data |-> [set |-> TRUE, v |-> Table(r.cols, r.rows)],
          last_uploaded |-> [set |-> TRUE, v |-> f.name]]
    ELSE sess

\* what the dashboard part of main renders for a session: reading the key
\* 'data' before any assignment raises AttributeError; min().date() raises
\* without a 'Completion Time' column (KeyError) or without any timestamp (NaT)
dashboard(sess) ==
    IF ~sess.data.set THEN "exception"
    ELSE LET df == sess.data.v IN
         IF Cardinality(Pos(df.cols, col_completion_time)) # 1 THEN "exception"
         ELSE IF \A r \in 1..Len(df.rows) : ~IsTs(Cell(df, r, col_completion_time))
             THEN "exception"
         ELSE "dashboard"

\* the digits of the fraction k/Scale as repr(float) writes them: no trailing
\* zero, one digit at least
FracText(k) ==
    IF k % 100 = 0 THEN <<DigitChar(k \div 100)>>
    ELSE IF k % 10 = 0 THEN <<DigitChar(k \div 100), DigitChar((k \div 10) % 10)>>
    ELSE <<DigitChar(k \div 100), DigitChar((k \div 10) % 10), DigitChar(k % 10)>>

\* a float as to_csv writes it: 500.0, -500.0, 0.125
FloatText(n) ==
    (IF n < 0 THEN <<"-">> ELSE <<>>)
        \o NatText(Abs(n) \div Scale) \o <<".">> \o FracText(Abs(n) % Scale)

\* one cell as to_csv writes it: NaN, NaT and None as the empty field, a
\* timestamp as "YYYY-MM-DD HH:MM:SS" (a column of midnights only would be
\* written as dates; the statements of the model carry a clock time)
csv_text(v) ==
    IF IsTxt(v) \/ IsTs(v) THEN v.s
    ELSE IF IsNum(v) THEN FloatText(v.n)
    ELSE <<>>

\* display_df.to_csv(index=False): the column labels, then one line per row
to_csv(df) ==
    <<df.cols>> \o
    [r \in 1..Len(df.rows) |-> [c \in 1..Len(df.rows[r]) |-> csv_text(df.rows[r][c])]]

\* a statement ingested, its ledger exported (app.py line 157) and the exported
\* text ingested again by parse_csv
Exported(ledger, csv, again) ==
    [err |-> ledger.err, ledger |-> ledger, csv |-> csv, again |-> again]

export_and_reingest(input) ==
    The({IF IsOk(l) THEN Exported(l, to_csv(l), parse_csv(CsvContent(to_csv(l))))
         ELSE Exported(l, <<>>, l) :
            l \in {parse_file(input.content, input.file_type)}})

(***************************************************************************)
(* Inputs                                                                  *)
(***************************************************************************)
MaxFrags == 2
MaxCellLen == 3
MaxJunk == 20
MaxRows == 2
MaxPages == 2
MaxKpiRows == 3
MaxIngestions == 3

MaxTrendRows == 3

\* the sequences over S of length at most n
UpTo(n, S) == UNION {[1..k -> S] : k \in 0..n}

fr_pay_bill == <<"P","a","y"," ","B","i","l","l">>
fr_paybill == <<"P","A","Y","B","I","L","L">>
fr_loan == <<" ","l","o","a","n">>
fr_received == <<"R","e","c","e","i","v","e","d">>
fr_from == <<" ","f","r","o","m"," ">>
fr_for_art == <<" ","f","o","r"," ","A","r","t">>
fr_airtime == <<"A","i","r","t","i","m","e">>
fr_buy_goods == <<"B","u","y"," ","G","o","o","d","s">>
fr_sent == <<"S","e","n","t">>
fr_to == <<" ","t","o">>
fr_customer_transfer == <<"C","u","s","t","o","m","e","r"," ","T","r","a","n","s","f","e","r">>
fr_withdraw == <<"w","i","t","h","d","r","a","w">>
fr_deposit == <<"D","e","p","o","s","i","t">>
fr_fuliza == <<"F","u","l","i","z","a">>
fr_m_shwari == <<"M","-","S","h","w","a","r","i">>
fr_store_x == <<" ","S","t","o","r","e"," ","X">>
fr_funds == <<"F","u","n","d","s"," ">>

DetailFrags ==
    {fr_pay_bill, fr_paybill, fr_loan, fr_received, fr_from, fr_for_art, fr_airtime,
     fr_buy_goods, fr_sent, fr_to, fr_customer_transfer, fr_withdraw, fr_deposit,
     fr_fuliza, fr_m_shwari, fr_store_x, fr_funds}

txt_pay_bill_via == <<"P","a","y"," ","B","i","l","l"," ","v","i","a"," ","1","2","3","4","5">>
txt_sent_to_0712 == <<"S","e","n","t"," ","t","o"," ","0","7","1","2",".",".",".">>
txt_funds_received_from == <<"F","u","n","d","s"," ","R","e","c","e","i","v","e","d"," ","f","r","o","m"," ",".",".",".">>
txt_pay_bill_loan == <<"P","a","y"," ","B","i","l","l"," ","l","o","a","n"," ","r","e","p","a","y","m","e","n","t">>
txt_received_for_art == <<"R","e","c","e","i","v","e","d"," ","f","o","r"," ","A","r","t">>
txt_buy_goods_store_x == <<"B","u","y"," ","G","o","o","d","s"," ","S","t","o","r","e"," ","X">>

\* the Details cells handed to the categorizer: a missing cell, the texts of
\* the tests and of the specification's scenarios, and every concatenation of
\* at most MaxFrags fragments
DetailsInputs ==
    {NA}
    \cup {Txt(d) : d \in {txt_pay_bill_via, txt_sent_to_0712, txt_funds_received_from,
                          txt_pay_bill_loan, txt_received_for_art, txt_buy_goods_store_x}}
    \cup {Txt(Flatten(fs)) : fs \in UpTo(MaxFrags, DetailFrags)}

txt_rc12345 == <<"R","C","1","2","3","4","5">>
txt_rc12346 == <<"R","C","1","2","3","4","6">>
txt_rc123 == <<"R","C","1","2","3">>
txt_na_long == <<"#","N","/","A"," ","N","/","A">>
txt_t1 == <<"2","0","2","3","-","1","0","-","0","1"," ","1","0",":","0","0",":","0","0">>
txt_t2 == <<"2","0","2","3","-","1","0","-","0","2"," ","1","2",":","0","0",":","0","0">>
txt_t3 == <<"2","7","-","1","1","-","2","0","2","3"," ","1","4",":","3","0",":","0","0">>
txt_completed == <<"C","o","m","p","l","e","t","e","d">>
txt_500 == <<"5","0","0",".","0","0">>
txt_2000 == <<"2","0","0","0",".","0","0">>
txt_1000 == <<"1","0","0","0",".","0","0">>
txt_3000 == <<"3","0","0","0",".","0","0">>
txt_1_000 == <<"1",",","0","0","0",".","0","0">>
txt_neg_500 == <<"-","5","0","0",".","0","0">>
txt_zero == <<"0">>
txt_sp_500 == <<" ","5","0","0"," ">>
txt_junk_title == <<"M","-","P","E","S","A"," ","S","T","A","T","E","M","E","N","T">>
txt_junk_name == <<"C","u","s","t","o","m","e","r"," ","N","a","m","e">>
txt_junk_value == <<"J","O","H","N"," ","D","O","E">>
txt_junk_x == <<"x">>
txt_disclaimer == <<"D","i","s","c","l","a","i","m","e","r">>
hdr_receipt_nl == <<"R","e","c","e","i","p","t","\n","N","o",".">>
hdr_receipt_nodot == <<"R","e","c","e","i","p","t"," ","N","o">>
hdr_details_caps == <<"D","E","T","A","I","L","S">>
hdr_paid_in_sp == <<" ","P","a","i","d"," ","I","n"," ">>

\* the statement of tests/test_parser.py: a header line and two rows
HeaderLine == REQUIRED_COLUMNS
row1 == <<txt_rc12345, txt_t1, txt_buy_goods_store_x, txt_completed, <<>>, txt_500, txt_1000>>
row2 == <<txt_rc12346, txt_t2, txt_received_for_art, txt_completed, txt_2000, <<>>, txt_3000>>
TestCsv == <<HeaderLine, row1, row2>>

\* rows whose receipt is too short, empty, or one of the reader's NA texts
row_short == <<txt_rc123, txt_t1, fr_airtime, txt_completed, <<>>, txt_zero, txt_500>>
row_norcpt == <<<<>>, txt_t2, txt_disclaimer, <<>>, <<>>, <<>>, <<>>>>
row_na == <<txt_na_long, txt_t3, fr_deposit, txt_completed, txt_1_000, <<>>, txt_2000>>
row_dmy == <<txt_rc12346, txt_t3, txt_pay_bill_loan, txt_completed, <<>>, txt_neg_500, txt_zero>>

RowKinds == {row1, row2, row_short, row_norcpt, row_na, row_dmy}

\* a header line whose labels need the mapping of _clean_data
HeaderLineVariant ==
    <<col_receipt_no, col_completion_time, hdr_details_caps, col_transaction_status,
      hdr_paid_in_sp, col_withdrawn, col_balance>>

\* metadata lines of one, two, seven and eight fields, and a blank line
junk1 == <<txt_junk_title>>
junk2 == <<txt_junk_name, txt_junk_value>>
junk7 == [i \in 1..7 |-> txt_junk_x]
junk8 == [i \in 1..8 |-> txt_junk_x]
blank == <<<<>>>>

JunkKinds == {junk1, junk2, junk7, junk8, blank}

\* k metadata lines: one of kind x, then k - 1 of kind y
JunkPrefix(x, y, k) == IF k = 0 THEN <<>> ELSE <<x>> \o [i \in 1..(k - 1) |-> y]

CsvJunkFiles ==
    {CsvContent(JunkPrefix(x, y, k) \o body) :
        x \in JunkKinds, y \in JunkKinds, k \in 0..MaxJunk,
        body \in {TestCsv, <<HeaderLine, row_dmy>>, <<HeaderLineVariant, row2, row_short>>}}

CsvRowFiles ==
    {CsvContent(pre \o <<h>> \o rows) :
        pre \in {<<>>, <<junk7>>}, h \in {HeaderLine, HeaderLineVariant},
        rows \in UpTo(MaxRows, RowKinds)}

\* cell grids of a PDF page
PdfRow(fields) == [c \in 1..Len(fields) |-> Txt(fields[c])]
g_none == <<PdfRow(<<txt_disclaimer>>), PdfRow(junk2)>>
g_hdr_only == <<PdfRow(junk1), PdfRow(HeaderLine)>>
g_full == <<PdfRow(HeaderLine), PdfRow(row1), PdfRow(row2)>>
g_short ==
    <<PdfRow(junk1), PdfRow(HeaderLine), PdfRow(row_short), PdfRow(row_dmy),
      <<NA, NA, Txt(txt_disclaimer)>>>>
g_variant == <<PdfRow(HeaderLineVariant), PdfRow(row_dmy), PdfRow(row1)>>
g_nl ==
    <<PdfRow(<<hdr_receipt_nl>> \o Tail(HeaderLine)), PdfRow(row2), PdfRow(row1)>>
g_nodot ==
    <<PdfRow(<<hdr_receipt_nodot>> \o Tail(HeaderLine)), PdfRow(row1)>>

PageKinds ==
    {<<>>, <<<<>>>>, <<g_none>>, <<g_hdr_only>>, <<g_full>>, <<g_short, g_nl>>,
     <<g_none, g_full>>, <<g_nodot>>, <<g_variant>>}

PdfDocs == {PdfContent(pages) : pages \in UpTo(MaxPages, PageKinds)}

IngestInputs ==
    {[content |-> c, file_type |-> ext_csv] : c \in CsvJunkFiles \cup CsvRowFiles}
    \cup {[content |-> c, file_type |-> ext_pdf] : c \in PdfDocs}

\* raw texts of a Paid In or Withdrawn cell
CellChars == {"5", "-", "n", "a"}

CurrencyTexts ==
    UpTo(MaxCellLen, CellChars)
    \cup {txt_zero, txt_500, txt_1_000, txt_neg_500, txt_sp_500}

CurrencyRow(paid, wd) ==
    <<txt_rc12345, txt_t1, txt_buy_goods_store_x, txt_completed, paid, wd, txt_1000>>

\* the texts of the other leg while one leg runs over all of CurrencyTexts
OtherLegTexts == {<<>>, <<"5">>, <<"n","a","n">>, txt_500}

\* the pairs of raw Paid In and Withdrawn texts
CurrencyPairs ==
    (CurrencyTexts \X OtherLegTexts) \cup (OtherLegTexts \X CurrencyTexts)

CurrencyInputs ==
    {[content |-> CsvContent(<<HeaderLine, CurrencyRow(pw[1], pw[2])>>),
      file_type |-> ext_csv] : pw \in CurrencyPairs}
    \cup
    {[content |-> PdfContent(<<<<<<PdfRow(HeaderLine),
                                  PdfRow(CurrencyRow(pw[1], pw[2]))>>>>>>),
      file_type |-> ext_pdf] : pw \in CurrencyPairs}

\* raw tables handed to _clean_data directly: one or two rows, Details varied
CleanInputs ==
    {Table(HeaderLine, [r \in 1..Len(ds) |->
                           <<Txt(txt_rc12345), Txt(txt_t1), ds[r], Txt(txt_completed),
                             Txt(txt_500), NA, Txt(txt_1000)>>]) :
        ds \in UpTo(2, {NA, Txt(<<>>), Txt(fr_airtime), Txt(txt_received_for_art),
                        Txt(fr_customer_transfer)}) \ {<<>>}}

\* ledgers handed to calculate_kpis: Amount cells of either sign, zero and NaN
AmountValues == {Num(0 - 2000 * Scale), Num(0 - 500 * Scale), Num(0), Num(500 * Scale),
                 Num(2000 * Scale), NA}

KpiInputs ==
    {Table(<<col_amount>>, [r \in 1..Len(a) |-> <<a[r]>>]) : a \in UpTo(MaxKpiRows, AmountValues)}

tm_2022_12 == <<"2","0","2","2","-","1","2","-","3","1"," ","2","3",":","5","9",":","5","9">>
tm_2023_01 == <<"2","0","2","3","-","0","1","-","0","1"," ","0","0",":","0","0",":","0","0">>
tm_2023_03 == <<"2","0","2","3","-","0","3","-","1","5"," ","1","2",":","0","0",":","0","0">>

\* a row of a ledger as the trends see it: its Completion Time and its Amount
TrendRows ==
    {<<t, a>> : t \in {NA, Ts(tm_2022_12), Ts(tm_2023_01), Ts(tm_2023_03)},
                a \in {Num(0 - 500 * Scale), Num(0), Num(2000 * Scale), NA}}

TrendInputs ==
    {Table(<<col_completion_time, col_amount>>, rows) : rows \in UpTo(MaxTrendRows, TrendRows)}

hdr_notes == <<"N","o","t","e","s">>
txt_note == <<"g","i","f","t">>
txt_nan == <<"n","a","n">>

\* a statement with a column no mapping rule matches
HeaderLineNotes == HeaderLine \o <<hdr_notes>>

\* a statement whose columns come in another order
HeaderLineReordered ==
    <<col_details, col_receipt_no, col_completion_time, col_transaction_status,
      col_withdrawn, col_paid_in, col_balance>>
row1_reordered ==
    <<txt_buy_goods_store_x, txt_rc12345, txt_t1, txt_completed, txt_500, <<>>, txt_1000>>

\* a row whose Withdrawn cell reads "nan"
row_nan == <<txt_rc12345, txt_t1, txt_buy_goods_store_x, txt_completed, <<>>, txt_nan, txt_1000>>

ExportInputs ==
    IngestInputs
    \cup {[content |-> CsvContent(<<HeaderLineNotes, row1 \o <<txt_note>>, row2 \o <<<<>>>>>>),
           file_type |-> ext_csv],
          [content |-> CsvContent(<<HeaderLineReordered, row1_reordered>>),
           file_type |-> ext_csv],
          [content |-> CsvContent(<<HeaderLine, row_nan, row2>>), file_type |-> ext_csv],
          [content |-> PdfContent(<<<<<<PdfRow(HeaderLineNotes), PdfRow(row1 \o <<txt_note>>)>>>>>>),
           file_type |-> ext_pdf],
          [content |-> PdfContent(<<<<<<PdfRow(HeaderLine), PdfRow(row_nan), PdfRow(row2)>>>>>>),
           file_type |-> ext_pdf]}

hdr_date == <<"D","a","t","e">>
hdr_receipt_ref == <<"R","e","c","e","i","p","t"," ","R","e","f">>
hdr_status_code == <<"S","t","a","t","u","s"," ","C","o","d","e">>
hdr_more_details == <<"M","o","r","e"," ","D","e","t","a","i","l","s">>
hdr_paid_in_kes == <<"P","a","i","d"," ","I","n"," ","K","E","S">>
hdr_withdrawn_kes == <<"W","i","t","h","d","r","a","w","n"," ","K","E","S">>
hdr_balance_bf == <<"B","a","l","a","n","c","e"," ","B","/","F">>
txt_rc99999 == <<"R","C","9","9","9","9","9">>
txt_t9 == <<"2","0","2","3","-","1","2","-","2","4"," ","0","9",":","1","5",":","0","0">>
txt_paybill_rent == <<"P","a","y","b","i","l","l"," ","r","e","n","t">>
txt_failed == <<"F","a","i","l","e","d">>
txt_750 == <<"7","5","0",".","0","0">>

\* a second header for a field of the statement, and a cell under it
SecondHeaders ==
    {<<hdr_receipt_ref, txt_rc99999>>, <<hdr_date, txt_t9>>,
     <<hdr_more_details, txt_paybill_rent>>, <<hdr_status_code, txt_failed>>,
     <<hdr_paid_in_kes, txt_750>>, <<hdr_withdrawn_kes, txt_750>>,
     <<hdr_balance_bf, txt_750>>}

\* seq with x put in as its k-th element
InsertAt(seq, k, x) == SubSeq(seq, 1, k - 1) \o <<x>> \o SubSeq(seq, k, Len(seq))

\* raw tables in which two headers map to one field: the seven standard
\* columns and a second header at any place among them
CollisionInputs ==
    {Table(InsertAt(HeaderLine, k, h[1]),
           [r \in 1..Len(rows) |-> InsertAt(PdfRow(rows[r]), k, Txt(h[2]))]) :
        h \in SecondHeaders, k \in 1..(Len(HeaderLine) + 1),
        rows \in {<<row1>>, <<row2>>, <<row1, row2>>, <<row2, row1>>}}

name_a_csv == <<"a",".","c","s","v">>
name_b_csv == <<"b",".","c","s","v">>
name_a_pdf == <<"a",".","p","d","f">>
name_a_txt == <<"a",".","t","x","t">>

\* what the user may have in the uploader when the script runs
SessionFiles ==
    {UploadedFile(n, c) :
        n \in {name_a_csv, name_b_csv, name_a_pdf, name_a_txt},
        c \in {CsvContent(TestCsv), CsvContent(<<HeaderLine, row_dmy>>),
               CsvContent(<<junk1>>), PdfContent(<<<<g_full>>>>),
               PdfContent(<<<<g_none>>>>)}}
    \cup {NoFile}

(***************************************************************************)
(* Behaviours                                                              *)
(***************************************************************************)
Idle ==
    /\ session = EmptySession
    /\ uploaded_file = NoFile
    /\ display = "none"
    /\ log = NoIngestion

NotCalled == ret = <<>> /\ called = FALSE

InitCategorize ==
    /\ \/ fn = "categorize" /\ arg \in DetailsInputs
       \/ fn = "clean" /\ arg \in CleanInputs
    /\ NotCalled /\ Idle
    /\ empty_apply_raises \in BOOLEAN

InitCurrency ==
    /\ fn = "parse_file" /\ arg \in CurrencyInputs
    /\ NotCalled /\ Idle
    /\ empty_apply_raises \in BOOLEAN

InitIngest ==
    /\ fn = "parse_file" /\ arg \in IngestInputs
    /\ NotCalled /\ Idle
    /\ empty_apply_raises \in BOOLEAN

InitKpis ==
    /\ fn = "kpis" /\ arg \in KpiInputs
    /\ NotCalled /\ Idle
    /\ empty_apply_raises = FALSE

InitTrends ==
    /\ fn = "trends" /\ arg \in TrendInputs
    /\ NotCalled /\ Idle
    /\ empty_apply_raises = FALSE

InitExport ==
    /\ fn = "export" /\ arg \in ExportInputs
    /\ NotCalled /\ Idle
    /\ empty_apply_raises \in BOOLEAN

InitCollision ==
    /\ fn = "clean" /\ arg \in CollisionInputs
    /\ NotCalled /\ Idle
    /\ empty_apply_raises \in BOOLEAN

InitSession ==
    /\ fn = "main" /\ arg = <<>>
    /\ NotCalled /\ Idle
    /\ empty_apply_raises \in BOOLEAN

Returns(v) ==
    /\ ~called
    /\ ret' = v
    /\ called' = TRUE
    /\ UNCHANGED <<fn, arg, session, uploaded_file, display, log, empty_apply_raises>>

CallCategorize == fn = "categorize" /\ Returns(_categorize_transaction(arg))

CallCleanData == fn = "clean" /\ Returns(_clean_data(arg))

CallParseFile == fn = "parse_file" /\ Returns(parse_file(arg.content, arg.file_type))

CallKpis == fn = "kpis" /\ Returns(calculate_kpis(arg))

CallTrends ==
    /\ fn = "trends"
    /\ \E no_bins_raises \in BOOLEAN : Returns(get_monthly_trends(arg, no_bins_raises))

CallExport == fn = "export" /\ Returns(export_and_reingest(arg))

\* one run of main() with f in the uploader: the processing block (lines 58-70)
\* and then the dashboard block (lines 73-176)
Main(f) ==
    /\ fn = "main"
    /\ log.count < MaxIngestions
    /\ uploaded_file' = f
    /\ IF f.present /\ file_changed(session, f)
       THEN LET r  == parse_file(f.content, file_type_of(f.name))
                s2 == session_after(session, f, r)
            IN  /\ log' = [count |-> log.count + 1, file |-> f, result |-> r]
                /\ session' = s2
                /\ display' = IF IsOk(r) THEN dashboard(s2) ELSE "error"
       ELSE /\ UNCHANGED <<log, session>>
            /\ display' = dashboard(session)
    /\ UNCHANGED <<fn, arg, ret, called, empty_apply_raises>>

Rerun == \E f \in SessionFiles : Main(f)

NextCategorize == CallCategorize \/ CallCleanData
SpecCategorize == InitCategorize /\ [][NextCategorize]_vars

NextCurrency == CallParseFile
SpecCurrency == InitCurrency /\ [][NextCurrency]_vars

NextIngest == CallParseFile
SpecIngest == InitIngest /\ [][NextIngest]_vars

NextKpis == CallKpis
SpecKpis == InitKpis /\ [][NextKpis]_vars

NextTrends == CallTrends
SpecTrends == InitTrends /\ [][NextTrends]_vars

NextExport == CallExport
SpecExport == InitExport /\ [][NextExport]_vars

NextCollision == CallCleanData
SpecCollision == InitCollision /\ [][NextCollision]_vars

NextSession == Rerun
SpecSession == InitSession /\ [][NextSession]_vars

Init == InitCategorize \/ InitIngest \/ InitKpis \/ InitTrends \/ InitExport \/ InitCollision \/ InitSession
Next == CallCategorize \/ CallCleanData \/ CallParseFile \/ CallKpis \/ Rerun
Spec == Init /\ [][Next]_vars

(***************************************************************************)
(* Properties                                                              *)
(***************************************************************************)
\* a cell of a row that may be shorter than the table
CellAt(row, c) == IF c <= Len(row) THEN row[c] ELSE NA

\* the data rows of a CSV file as written: the non-blank lines after the first
\* line that holds both header tokens
FirstHeaderLine(lines) ==
    LET hits == {i \in 1..Len(lines) :
                    /\ Contains(LineText(lines[i]), tok_receipt_no)
                    /\ Contains(LineText(lines[i]), tok_completion_time)}
    IN  IF hits = {} THEN 0 ELSE CHOOSE i \in hits : \A j \in hits : i <= j

CsvRawRows(lines) ==
    LET h    == FirstHeaderLine(lines)
        rest == SubSeq(lines, h + 1, Len(lines))
        data == SelectIdx(rest, {i \in 1..Len(rest) : ~IsBlankLine(rest[i])}, 1)
    IN  [r \in 1..Len(data) |-> [c \in 1..Len(data[r]) |-> csv_cell(data[r][c])]]

\* the data rows of a PDF document as extracted: the rows below the header row
\* of every grid that has one, in page, grid and row order
RECURSIVE PdfRawRows(_)
PdfRawRows(tables) ==
    IF tables = <<>> THEN <<>>
    ELSE LET t == Head(tables)
             h == header_idx(t)
         IN  (IF h = 0 THEN <<>> ELSE SubSeq(t, h + 1, Len(t)))
             \o PdfRawRows(Tail(tables))

RawRows(input) ==
    IF input.content.kind = "csv" THEN CsvRawRows(input.content.lines)
    ELSE PdfRawRows(Flatten(input.content.pages))

\* a row identified by its receipt and details cells (the first and third
\* column of every statement of the model)
RawKeys(rows) == [r \in 1..Len(rows) |-> <<CellAt(rows[r], 1), CellAt(rows[r], 3)>>]

LedgerKeys(df) ==
    [r \in 1..Len(df.rows) |-> <<Cell(df, r, col_receipt_no), Cell(df, r, col_details)>>]

LongReceipt(key) == IsTxt(key[1]) /\ Len(key[1].s) > 5

Ingested == fn = "parse_file" /\ called

\* C1 (as claimed): in every ledger an ingestion returns, Amount > 0 exactly when
\* PaidIn > 0, Amount < 0 exactly when Withdrawn > 0 and PaidIn = 0, and Amount
\* is 0 only when neither leg is positive, whatever the text of the two cells.
C1_AmountSignFollowsLegs ==
    (Ingested /\ IsOk(ret)) =>
        \A r \in 1..Len(ret.rows) :
            LET a == Cell(ret, r, col_amount)
                p == Cell(ret, r, col_paid_in)
                w == Cell(ret, r, col_withdrawn)
            IN  /\ GtZero(a) <=> GtZero(p)
                /\ LtZero(a) <=> (GtZero(w) /\ EqZero(p))
                /\ EqZero(a) => (~GtZero(p) /\ ~GtZero(w))

AllKeywords ==
    {kw_airtime, kw_pay_bill, kw_paybill, kw_buy_goods, kw_customer_transfer, kw_sent_to,
     kw_received_from, kw_withdraw, kw_deposit, kw_loan, kw_fuliza, kw_m_shwari}

\* the lower-cased text of a Details cell; a missing cell has none
DetailsText(cell) == IF IsTxt(cell) THEN Lower(cell.s) ELSE <<>>

NoKeyword(cell) == \A kw \in AllKeywords : ~Contains(DetailsText(cell), kw)

ProducedCategory(c) == c \in Range(CATEGORIES) /\ c # cat_bank_transfer

\* C3: the categorizer is total: every Details cell, empty or missing ones too,
\* gets one category of the declared set, never "Bank Transfer", and "Other"
\* when no keyword occurs; every row of a cleaned table carries it in its one
\* Category column.
C3_CategoryTotal ==
    /\ (fn = "categorize" /\ called) =>
           /\ ProducedCategory(ret)
           /\ NoKeyword(arg) => ret = cat_other
    /\ (fn = "clean" /\ called /\ IsOk(ret)) =>
           /\ Cardinality(Pos(ret.cols, col_category)) = 1
           /\ Len(ret.rows) = Len(arg.rows)
           /\ \A r \in 1..Len(ret.rows) :
                  LET c == Cell(ret, r, col_category) IN
                  /\ IsTxt(c) /\ ProducedCategory(c.s)
                  /\ NoKeyword(Cell(arg, r, col_details)) => c.s = cat_other

\* C3 witness: a cleaned table with a row whose Details is missing, filed "Other"
C3_Witness ==
    /\ fn = "clean" /\ called /\ IsOk(ret)
    /\ \E r \in 1..Len(ret.rows) :
           IsNA(Cell(arg, r, col_details)) /\ Cell(ret, r, col_category) = Txt(cat_other)

\* the rules of the specification, in their order
Rules ==
    <<[kws |-> {kw_airtime}, cat |-> cat_airtime],
      [kws |-> {kw_pay_bill, kw_paybill}, cat |-> cat_pay_bill],
      [kws |-> {kw_buy_goods}, cat |-> cat_buy_goods],
      [kws |-> {kw_customer_transfer, kw_sent_to}, cat |-> cat_sent_to_mpesa],
      [kws |-> {kw_received_from}, cat |-> cat_received_mpesa],
      [kws |-> {kw_withdraw}, cat |-> cat_withdraw_cash],
      [kws |-> {kw_deposit}, cat |-> cat_deposit],
      [kws |-> {kw_loan, kw_fuliza, kw_m_shwari}, cat |-> cat_loan]>>

MatchingRules(cell) ==
    {i \in 1..Len(Rules) : \E kw \in Rules[i].kws : Contains(DetailsText(cell), kw)}

\* C4: the category is that of the lowest-numbered rule one of whose keywords
\* occurs in the lower-cased Details; so "Pay Bill loan repayment" is "Pay Bill".
C4_FirstMatchingRule ==
    (fn = "categorize" /\ called) =>
        /\ MatchingRules(arg) # {} =>
               ret = Rules[CHOOSE i \in MatchingRules(arg) :
                               \A j \in MatchingRules(arg) : i <= j].cat
        /\ arg = Txt(txt_pay_bill_loan) => ret = cat_pay_bill

\* C4 witness: a Details text that matches rule 2 and rule 8, in upper case
C4_Witness ==
    /\ fn = "categorize" /\ called
    /\ arg = Txt(fr_paybill \o fr_loan)
    /\ MatchingRules(arg) = {2, 8}
    /\ ret = cat_pay_bill

TestInput == [content |-> CsvContent(TestCsv), file_type |-> ext_csv]

\* C5 (as claimed): the second row of the two-row statement is ingested with
\* Amount = +2000.00 and Category = "Received M-Pesa".
C5_ReceivedForArt_AsClaimed ==
    (Ingested /\ arg = TestInput) =>
        /\ IsOk(ret) /\ Len(ret.rows) = 2
        /\ Cell(ret, 2, col_amount) = Num(2000 * Scale)
        /\ Cell(ret, 2, col_category) = Txt(cat_received_mpesa)

\* C5 (amended): the second row of the two-row statement is ingested with
\* Amount = +2000.00 and Category = "Other", since "Received for Art" holds
\* no keyword of any rule.
C5_ReceivedForArt ==
    (Ingested /\ arg = TestInput) =>
        /\ IsOk(ret) /\ Len(ret.rows) = 2
        /\ Cell(ret, 2, col_details) = Txt(txt_received_for_art)
        /\ Cell(ret, 2, col_paid_in) = Num(2000 * Scale)
        /\ Cell(ret, 2, col_withdrawn) = Num(0)
        /\ Cell(ret, 2, col_amount) = Num(2000 * Scale)
        /\ Cell(ret, 2, col_category) = Txt(cat_other)

\* C5 witness: the two-row statement has been ingested
C5_Witness == Ingested /\ arg = TestInput /\ IsOk(ret) /\ Len(ret.rows) = 2

\* C6 (as claimed): when k < 20 metadata lines precede the first line holding
\* both header tokens, parse_csv returns what it returns for the file without
\* those k lines (stated for files whose remainder parses).
C6_MetadataLinesSkipped ==
    (Ingested /\ arg.content.kind = "csv") =>
        LET lines == arg.content.lines
            h     == FirstHeaderLine(lines)
            body  == CsvContent(SubSeq(lines, h, Len(lines)))
        IN  (h >= 1 /\ h - 1 < 20 /\ IsOk(parse_csv(body))) => ret = parse_csv(body)

GridHasHeader(t) == header_idx(t) # 0
GridHasData(t) == header_idx(t) # 0 /\ header_idx(t) < Len(t)

\* C7 (as claimed): parse_pdf fails with NoTransactionsFound if no grid of the
\* document has a header row, and when some grid has one it does not fail so and
\* the rows below the headers are accumulated in encounter order.
C7_NoTransactions_AsClaimed ==
    (Ingested /\ arg.content.kind = "pdf") =>
        LET tables == Flatten(arg.content.pages) IN
        /\ (\A k \in 1..Len(tables) : ~GridHasHeader(tables[k]))
               => ret.err = "NoTransactionsFound"
        /\ (\E k \in 1..Len(tables) : GridHasHeader(tables[k]))
               => /\ ret.err # "NoTransactionsFound"
                  /\ IsOk(ret) =>
                         LedgerKeys(ret) = SelectSeq(RawKeys(PdfRawRows(tables)), LongReceipt)

\* C7 (amended): parse_pdf fails with NoTransactionsFound exactly when no grid of
\* the document has a header row followed by at least one data row; when some
\* grid has, the rows below the headers are accumulated in page, grid and row
\* order (the ledger is those rows, receipt-filtered, in that order).
C7_NoTransactions ==
    (Ingested /\ arg.content.kind = "pdf") =>
        LET tables == Flatten(arg.content.pages) IN
        /\ (\A k \in 1..Len(tables) : ~GridHasData(tables[k]))
               <=> ret.err = "NoTransactionsFound"
        /\ IsOk(ret) =>
               LedgerKeys(ret) = SelectSeq(RawKeys(PdfRawRows(tables)), LongReceipt)

\* C7 witness: rows of two grids of one document reached the ledger
C7_Witness ==
    /\ Ingested /\ arg.content.kind = "pdf" /\ IsOk(ret)
    /\ Cardinality({k \in 1..Len(Flatten(arg.content.pages)) :
                       GridHasData(Flatten(arg.content.pages)[k])}) >= 2
    /\ Len(ret.rows) >= 3

\* an ingestion ran in this step
Ran == log'.count = log.count + 1

StoredLedger(r) == [set |-> TRUE, v |-> Table(r.cols, r.rows)]

\* C8: in every run of main, an ingestion that succeeds replaces the session
\* ledger by exactly the ledger it produced and remembers the file's name; an
\* ingestion that fails, with whatever error, leaves the ledger and the
\* remembered name as they were and shows the error; a run without ingestion
\* changes neither. So the ledger held is that of the last successful ingestion.
C8_LedgerIsLastSuccess ==
    [][ /\ Ran => /\ log'.file = uploaded_file'
                  /\ log'.result = parse_file(uploaded_file'.content,
                                              file_type_of(uploaded_file'.name))
        /\ (Ran /\ IsOk(log'.result)) =>
               /\ session'.data = StoredLedger(log'.result)
               /\ session'.last_uploaded = [set |-> TRUE, v |-> uploaded_file'.name]
        /\ (Ran /\ ~IsOk(log'.result)) =>
               /\ session'.data = session.data
               /\ session'.last_uploaded = session.last_uploaded
               /\ display' = "error"
        /\ ~Ran => session' = session
      ]_vars

\* C8 witness: a later ingestion of another file failed and the session still
\* holds the ledger and the name of the earlier, successful one
C8_Witness ==
    /\ log.count >= 2 /\ ~IsOk(log.result)
    /\ uploaded_file = log.file
    /\ session.data.set /\ Len(session.data.v.rows) >= 1
    /\ session.last_uploaded.set /\ session.last_uploaded.v # log.file.name

\* C9: in every run of main with a file in the uploader, an ingestion is run
\* exactly when no name is remembered or the file's name differs from the
\* remembered one; with an equal name the session ledger stays as it is,
\* whatever the file's bytes. Without a file no ingestion is run.
C9_ChangeDetectionByName ==
    [][ /\ uploaded_file'.present =>
               /\ Ran <=> (~session.last_uploaded.set
                           \/ session.last_uploaded.v # uploaded_file'.name)
               /\ (session.last_uploaded.set
                   /\ session.last_uploaded.v = uploaded_file'.name)
                      => session' = session
        /\ ~uploaded_file'.present => ~Ran
      ]_vars

\* C9 witness: the uploader holds a file with the remembered name and other
\* bytes than the file ingested under that name, and the ledger is the old one
C9_Witness ==
    /\ uploaded_file.present /\ session.last_uploaded.set
    /\ uploaded_file.name = session.last_uploaded.v
    /\ IsOk(log.result) /\ log.file.name = uploaded_file.name
    /\ log.file.content # uploaded_file.content
    /\ parse_file(uploaded_file.content, file_type_of(uploaded_file.name)) # log.result
    /\ session.data = StoredLedger(log.result)

RECURSIVE SumPositive(_)
SumPositive(a) ==
    IF a = <<>> THEN 0
    ELSE (IF IsNum(Head(a)) /\ Head(a).n > 0 THEN Head(a).n ELSE 0) + SumPositive(Tail(a))

RECURSIVE SumNegative(_)
SumNegative(a) ==
    IF a = <<>> THEN 0
    ELSE (IF IsNum(Head(a)) /\ Head(a).n < 0 THEN Head(a).n ELSE 0) + SumNegative(Tail(a))

TimedLedger(df) ==
    Table(df.cols,
          SelectIdx(df.rows,
                    {r \in 1..Len(df.rows) : IsTs(Cell(df, r, col_completion_time))}, 1))

RECURSIVE SumIncome(_)
SumIncome(buckets) ==
    IF buckets = <<>> THEN 0 ELSE Head(buckets).Income + SumIncome(Tail(buckets))

RECURSIVE SumExpense(_)
SumExpense(buckets) ==
    IF buckets = <<>> THEN 0 ELSE Head(buckets).Expense + SumExpense(Tail(buckets))

CanonicalHeader ==
    <<col_receipt_no, col_completion_time, col_details, col_transaction_status,
      col_paid_in, col_withdrawn, col_balance, col_amount, col_category>>

\* C12 (as claimed): the export of every ledger produced by ingestion has as
\* its header line exactly the nine canonical fields, in their order, and no
\* other column, whatever headers the source had.
C12_ExportHeaderCanonical ==
    (fn = "export" /\ called /\ IsOk(ret)) => Head(ret.csv) = CanonicalHeader

\* C13 (as claimed): the export of every ledger produced by ingestion, ingested
\* again through the CSV path, gives a ledger with as many rows and, row by
\* row, the same ReceiptNo, Amount and Category.
C13_ExportRoundTrip ==
    (fn = "export" /\ called /\ IsOk(ret)) =>
        /\ IsOk(ret.again)
        /\ Len(ret.again.rows) = Len(ret.ledger.rows)
        /\ \A r \in 1..Len(ret.ledger.rows) :
               /\ Cell(ret.again, r, col_receipt_no) = Cell(ret.ledger, r, col_receipt_no)
               /\ Cell(ret.again, r, col_amount) = Cell(ret.ledger, r, col_amount)
               /\ Cell(ret.again, r, col_category) = Cell(ret.ledger, r, col_category)

\* the columns of a raw table whose header maps to the field
SourcesOf(df, field) == Pos(rename_columns(df).cols, field)

\* the value a field of the ledger takes from a raw cell
FieldValue(field, cell) ==
    IF field \in {col_paid_in, col_withdrawn, col_balance} THEN clean_currency(cell)
    ELSE IF field = col_completion_time THEN to_datetime(cell)
    ELSE cell

\* C14 (as claimed): when two or more headers of the raw table map to one
\* field, cleaning succeeds and the table it returns has a single column for
\* that field, holding the values of the later header in column order.
C14_CollisionLaterWins ==
    (fn = "clean" /\ called) =>
        \A i \in 1..Len(REQUIRED_COLUMNS) :
            Cardinality(SourcesOf(arg, REQUIRED_COLUMNS[i])) >= 2 =>
                /\ IsOk(ret)
                /\ Cardinality(Pos(ret.cols, REQUIRED_COLUMNS[i])) = 1
                /\ Len(ret.rows) = Len(arg.rows)
                /\ \A r \in 1..Len(ret.rows) :
                       Cell(ret, r, REQUIRED_COLUMNS[i])
                           = FieldValue(REQUIRED_COLUMNS[i],
                                        arg.rows[r][MaxOf(SourcesOf(arg, REQUIRED_COLUMNS[i]))])

\* C15 (as claimed): after every run of main in a session that holds no ledger
\* (no file uploaded yet, or no upload has succeeded), the ledger slot was
\* defined when the dashboard step read it: the run showed the upload prompt, or
\* the error of the ingestion that failed in this run, and raised nothing.
C15_PromptWithoutLedger ==
    (fn = "main" /\ display # "none" /\ ~session.data.set) =>
        \/ display = "prompt"
        \/ /\ display = "error"
           /\ uploaded_file.present /\ log.file = uploaded_file /\ ~IsOk(log.result)

====
